---- MODULE Spec2Model ----
(***************************************************************************)
(* State-machine model of src/redis/redis_migration.py: migrate() copies   *)
(* every key of a source Redis to a destination Redis with SCAN, a source  *)
(* pipeline of PTTL+DUMP and a destination pipeline of RESTORE (or TYPE in *)
(* a dry run).  The two Redis servers are modelled by what the commands    *)
(* the script issues do to a key -> record store.                          *)
(***************************************************************************)
EXTENDS Integers, Sequences, FiniteSets, TLC

----------------------------------------------------------------------------
(* Bounds of the model *)

\* number of distinct key names that may exist on either server
NumKeys == 3
\* most keys one SCAN call returns in the model
MaxBatch == 2
\* most SCAN calls the source needs before it returns cursor 0
MaxScans == 2
\* most keys removed from the source during a run that is followed to its end
MaxDeletes == 1

\* line 70: the scan size hint the script passes to SCAN
COUNT == 2000

Keys == 1..NumKeys

----------------------------------------------------------------------------
(* Values *)

\* Python's None: the DUMP reply for a key that does not exist
None == <<>>

OK == "OK"
BusyKeyMsg == "BUSYKEY Target key name already exists."
BusyLegacyMsg == "Target key name is busy."
BadPayloadMsg == "DUMP payload version or checksum are wrong"
BadTTLMsg == "Invalid TTL value, must be >= 0"
TypeNone == "none"
TypeString == "string"

min(a, b) == IF a <= b THEN a ELSE b

Range(s) == {s[j] : j \in 1..Len(s)}

\* the elements of a set of numbers, in ascending order
RECURSIVE SortedSeq(_)
SortedSeq(S) ==
    IF S = {} THEN <<>>
    ELSE LET m == CHOOSE x \in S : \A y \in S : x <= y
         IN  <<m>> \o SortedSeq(S \ {m})

----------------------------------------------------------------------------
(* The two servers.  A store maps each key it holds to [ttl, data].        *)

\* what the source holds for key k when it holds k: PTTL is -1 (no expiry),
\* a positive number of milliseconds or 0; the payload of every third key is
\* one the destination rejects
SrcRecord(k) ==
    [ttl  |-> CASE k % 3 = 1 -> -1
                [] k % 3 = 2 -> 40 + k
                [] OTHER     -> 0,
     data |-> <<IF k % 3 = 0 THEN "corrupt" ELSE "dump", k>>]

\* what the destination holds for key k when it holds k before the run
DstRecord(k) == [ttl |-> 0, data |-> <<"old", k>>]

\* the stores tried: the source holds the first n keys, the destination the
\* last m keys
SourceStores == {[k \in 1..n |-> SrcRecord(k)] : n \in 0..NumKeys}
DestStores == {[k \in (NumKeys - m + 1)..NumKeys |-> DstRecord(k)] : m \in 0..NumKeys}

\* PTTL key: -2 when the key does not exist
pttl(store, key) == IF key \in DOMAIN store THEN store[key].ttl ELSE -2

\* DUMP key: nil when the key does not exist
dump(store, key) == IF key \in DOMAIN store THEN store[key].data ELSE None

\* TYPE key
type(store, key) == IF key \in DOMAIN store THEN TypeString ELSE TypeNone

\* DBSIZE
dbsize(store) == Cardinality(DOMAIN store)

\* The reply of RESTORE key ttl data, without REPLACE: the server refuses an
\* existing key first, then a negative ttl, then a payload it cannot load.
RestoreReply(store, busy, key, ttl, data) ==
    IF key \in DOMAIN store THEN busy
    ELSE IF ttl < 0 THEN BadTTLMsg
    ELSE IF data = None \/ data[1] = "corrupt" THEN BadPayloadMsg
    ELSE OK

\* the store after RESTORE key ttl data
RestoreStore(store, busy, key, ttl, data) ==
    IF RestoreReply(store, busy, key, ttl, data) = OK
    THEN store @@ (key :> [ttl |-> ttl, data |-> data])
    ELSE store

\* one command of a destination pipeline, <<"restore", key, ttl, data>> or
\* <<"type", key>>: its reply and the store it leaves
CmdReply(store, busy, cmd) ==
    IF cmd[1] = "restore" THEN RestoreReply(store, busy, cmd[2], cmd[3], cmd[4])
    ELSE type(store, cmd[2])

CmdStore(store, busy, cmd) ==
    IF cmd[1] = "restore" THEN RestoreStore(store, busy, cmd[2], cmd[3], cmd[4])
    ELSE store

\* pipeline.execute(False) on the destination: the commands run in order in
\* one MULTI/EXEC, an error reply is returned in place and does not stop the
\* rest.  Gives [store, results].
RECURSIVE ExecDest(_, _, _)
ExecDest(store, busy, cmds) ==
    IF cmds = <<>> THEN [store |-> store, results |-> <<>>]
    ELSE LET r    == CmdReply(store, busy, Head(cmds))
             s    == CmdStore(store, busy, Head(cmds))
             rest == ExecDest(s, busy, Tail(cmds))
         IN  [store |-> rest.store, results |-> <<r>> \o rest.results]

\* pipeline.execute() on the source: PTTL and DUMP of every key, in order,
\* in one MULTI/EXEC.  Gives the flat reply list [pttl1, dump1, pttl2, ...].
RECURSIVE ExecSource(_, _)
ExecSource(store, ks) ==
    IF ks = <<>> THEN <<>>
    ELSE <<pttl(store, Head(ks)), dump(store, Head(ks))>> \o ExecSource(store, Tail(ks))

----------------------------------------------------------------------------
(* Pure steps of migrate *)

\* result[::2] and result[1::2] of the flat source reply list
RECURSIVE EvenSlice(_)
EvenSlice(s) ==
    IF s = <<>> THEN <<>>
    ELSE IF Len(s) = 1 THEN s
    ELSE <<Head(s)>> \o EvenSlice(Tail(Tail(s)))

OddSlice(s) == IF s = <<>> THEN <<>> ELSE EvenSlice(Tail(s))

\* NormalizeTTL without the -1 test
NormalizeTTL_Identity(ttl) == ttl

\* lines 90-91: PTTL's -1 (key without expiry) becomes RESTORE's 0
NormalizeTTL(ttl) == IF ttl = -1 THEN 0 ELSE ttl

\* lines 93-99: the destination command queued for a key that has a payload
BuildCmd(dry, key, ttl, data) ==
    IF dry THEN <<"type", key>> ELSE <<"restore", key, ttl, data>>

\* BuildPipeline without the test of line 92: a command for every key
RECURSIVE BuildPipeline_NoSkip(_, _, _, _)
BuildPipeline_NoSkip(dry, ks, ttls, datas) ==
    IF ks = <<>> \/ ttls = <<>> \/ datas = <<>> THEN <<>>
    ELSE <<BuildCmd(dry, Head(ks), NormalizeTTL(Head(ttls)), Head(datas))>>
         \o BuildPipeline_NoSkip(dry, Tail(ks), Tail(ttls), Tail(datas))

\* lines 88-99: the destination pipeline built from zip(keys, ttls, datas);
\* zip stops at the shortest of the three
RECURSIVE BuildPipeline(_, _, _, _)
BuildPipeline(dry, ks, ttls, datas) ==
    IF ks = <<>> \/ ttls = <<>> \/ datas = <<>> THEN <<>>
    ELSE (IF Head(datas) /= None
          THEN <<BuildCmd(dry, Head(ks), NormalizeTTL(Head(ttls)), Head(datas))>>
          ELSE <<>>)
         \o BuildPipeline(dry, Tail(ks), Tail(ttls), Tail(datas))

\* CountVanished with the increment outside the else: one for every key
RECURSIVE CountVanished_EveryKey(_, _, _)
CountVanished_EveryKey(ks, ttls, datas) ==
    IF ks = <<>> \/ ttls = <<>> \/ datas = <<>> THEN 0
    ELSE 1 + CountVanished_EveryKey(Tail(ks), Tail(ttls), Tail(datas))

\* lines 100-101: how many times the loop takes the else branch
RECURSIVE CountVanished(_, _, _)
CountVanished(ks, ttls, datas) ==
    IF ks = <<>> \/ ttls = <<>> \/ datas = <<>> THEN 0
    ELSE (IF Head(datas) /= None THEN 0 ELSE 1)
         + CountVanished(Tail(ks), Tail(ttls), Tail(datas))

\* IsBusyKey taking every error reply for a conflict
IsBusyKey_AnyError(e) == e /= OK

\* IsBusyKey knowing one of the two texts only
IsBusyKey_ModernOnly(e) == e = BusyKeyMsg

IsBusyKey_LegacyOnly(e) == e = BusyLegacyMsg

\* line 114: the two error texts the script takes for a busy-key conflict
IsBusyKey(e) == e = BusyKeyMsg \/ e = BusyLegacyMsg

\* Outcome without the flush test of line 110
Outcome_IgnoreFlush(dry, fl, res) ==
    IF dry THEN (IF res /= TypeNone THEN "AlreadyExisting" ELSE "WouldApply")
    ELSE IF res = OK THEN "Applied"
    ELSE IF IsBusyKey(res) THEN "AlreadyExisting"
    ELSE "Failed"

\* lines 106-118: what the loop does with one destination reply
Outcome(dry, fl, res) ==
    IF dry THEN (IF ~fl /\ res /= TypeNone THEN "AlreadyExisting" ELSE "WouldApply")
    ELSE IF res = OK THEN "Applied"
    ELSE IF IsBusyKey(res) THEN "AlreadyExisting"
    ELSE "Failed"

\* SameEndpoint comparing the source host with the destination port
SameEndpoint_WrongArg(sh, sp, dh, dp) == sh = dp

\* line 42: the self-migration test
SameEndpoint(sh, sp, dh, dp) == sh = dh

\* DoFlush clearing in a dry run only
DoFlush_OnlyDryrun(fl, dry) == fl /\ dry

\* DoFlush clearing in every Commit run
DoFlush_Always(fl, dry) == ~dry

\* DoFlush without the dry-run test
DoFlush_IgnoreDryrun(fl, dry) == fl

\* line 58: whether the destination is flushed
DoFlush(fl, dry) == fl /\ ~dry

----------------------------------------------------------------------------
(* State *)

VARIABLES
    \* the command line (lines 28-39)
    srchost, srchostport, dsthost, dsthostport, flush, dryrun,
    \* the two servers: their stores and the conflict text of the
    \* destination's version
    src, dst, busymsg,
    \* migrate's position and locals (lines 61-105)
    pc, size, cnt, non_existing, already_existing, cursor, keys, result,
    pipeline, results, i,
    \* what the process shows: printed lines, progress bar calls, the
    \* exception it ends with
    printed, pbar, raised,
    \* history: the commands the last destination pipeline ran, the calls
    \* issued per endpoint operation, the <<cursor passed, cursor returned>>
    \* of every SCAN, per-run tallies, the <<key, outcome>> pairs classified,
    \* the <<key, payload>> restores issued for a key the destination lacked,
    \* the <<key, payload>> restores that replied OK, the stores at the start
    \* of the run, the run number and the previous run's end
    issued, calls, scanLog, tally, outcomes, fresh, applied, src0, dst0, run, prev,
    \* kept only where a dry run is compared with the Commit run after it:
    \* the batches of keys the scans of the run returned, and those of the
    \* run before
    listing, prevListing

argv == <<srchost, srchostport, dsthost, dsthostport, flush, dryrun>>
servers == <<src, dst, busymsg>>
locals == <<size, cnt, non_existing, already_existing, cursor, keys, result,
            pipeline, results, i>>
shown == <<printed, pbar, raised>>
logged == <<listing, prevListing>>
history == <<issued, calls, scanLog, tally, outcomes, fresh, applied, src0, dst0, run, prev,
             logged>>
vars == <<argv, servers, pc, locals, shown, history>>

\* the command lines tried: different hosts, one endpoint given twice, and
\* one host with two ports
ArgSets ==
    { <<"src.example", "6379", "dst.example", "6379">>,
      <<"src.example", "6379", "src.example", "6379">>,
      <<"src.example", "6379", "src.example", "6380">> }

NoCalls == [flushdb |-> 0, dbsize |-> 0, scan |-> 0, pttl |-> 0, dump |-> 0,
            restore |-> 0, type |-> 0]
NoTally == [listed |-> 0, fetched |-> 0, transferred |-> 0, classified |-> 0,
            batches |-> 0, ok |-> 0]
NoPrev == [pc |-> "none", dryrun |-> FALSE, flush |-> FALSE, applied |-> {},
           non_existing |-> 0, already_existing |-> 0]

\* the state of a process that has just been started
Fresh ==
    /\ pc = "Start"
    /\ size = 0 /\ cnt = 0 /\ non_existing = 0 /\ already_existing = 0
    /\ cursor = 0 /\ keys = <<>> /\ result = <<>> /\ pipeline = <<>>
    /\ results = <<>> /\ i = 0
    /\ printed = <<>> /\ pbar = <<>> /\ raised = "none"
    /\ issued = <<>> /\ calls = NoCalls /\ scanLog = <<>> /\ tally = NoTally
    /\ outcomes = {} /\ fresh = {} /\ applied = {}

Init ==
    /\ \E a \in ArgSets :
         /\ srchost = a[1] /\ srchostport = a[2]
         /\ dsthost = a[3] /\ dsthostport = a[4]
    /\ flush \in BOOLEAN /\ dryrun \in BOOLEAN
    /\ src \in SourceStores /\ dst \in DestStores
    /\ busymsg \in {BusyKeyMsg, BusyLegacyMsg}
    /\ Fresh
    /\ src0 = src /\ dst0 = dst /\ run = 1 /\ prev = NoPrev
    /\ listing = <<>> /\ prevListing = <<>>

----------------------------------------------------------------------------
(* migrate, line by line *)

\* lines 42-56: the self-migration test; the two clients are built without
\* any network call
Start ==
    /\ pc = "Start"
    /\ IF SameEndpoint(srchost, srchostport, dsthost, dsthostport)
       THEN /\ printed' = Append(printed, <<"Source and destination must be different.">>)
            /\ pc' = "Aborted"
       ELSE /\ pc' = "Flush"
            /\ UNCHANGED printed
    /\ UNCHANGED <<argv, servers, locals, pbar, raised, history>>

\* lines 58-59
Flush ==
    /\ pc = "Flush"
    /\ IF DoFlush(flush, dryrun)
       THEN /\ dst' = << >>
            /\ calls' = [calls EXCEPT !.flushdb = @ + 1]
       ELSE UNCHANGED <<dst, calls>>
    /\ pc' = "Dbsize"
    /\ UNCHANGED <<argv, src, busymsg, locals, shown>>
    /\ UNCHANGED <<issued, scanLog, tally, outcomes, fresh, applied, src0, dst0, run, prev, logged>>

\* lines 61-75
Dbsize ==
    /\ pc = "Dbsize"
    /\ size' = dbsize(src)
    /\ calls' = [calls EXCEPT !.dbsize = @ + 1]
    /\ IF size' = 0
       THEN /\ printed' = Append(printed, <<"No keys found.">>)
            /\ pc' = "Done"
            /\ UNCHANGED pbar
       ELSE /\ pbar' = Append(pbar, <<"start", size'>>)
            /\ pc' = "Scan"
            /\ UNCHANGED printed
    /\ cnt' = 0 /\ non_existing' = 0 /\ already_existing' = 0 /\ cursor' = 0
    /\ UNCHANGED <<argv, servers, keys, result, pipeline, results, i, raised>>
    /\ UNCHANGED <<issued, scanLog, tally, outcomes, fresh, applied, src0, dst0, run, prev, logged>>

\* SCAN cursor COUNT count on the source.  The server keeps no state for an
\* iteration: the cursor names the position reached in its table, which the
\* model walks in key order (cursor 0 is the start, cursor p + 1 is "past
\* key p").  A call returns at most count keys, each of them in the store
\* now: the next n keys after the position, n >= 0, which it may precede by
\* the key at the position, returned once more (a table that was resized).
\* It returns cursor 0 only when no key is left after the new position.
ScanReplies(store, c, count) ==
    LET pos  == IF c = 0 THEN 0 ELSE c - 1
        rest == SortedSeq({k \in DOMAIN store : k > pos})
        again == {<<>>} \cup {<<k>> : k \in {pos} \cap DOMAIN store}
    IN  UNION { UNION { { [keys |-> d \o SubSeq(rest, 1, n), cursor |-> nc,
                            left |-> Len(rest) - n] :
                            nc \in (IF n = Len(rest) THEN {0} ELSE {})
                                   \cup {(IF n = 0 THEN pos ELSE rest[n]) + 1} } :
                        n \in 0..min(Len(rest), min(count, MaxBatch) - Len(d)) } :
                d \in again }

\* the iterations the model follows end within MaxScans calls: a reply given
\* after n earlier calls continues only if the calls left can return the
\* keys left
ScanReplyOk(r, n) ==
    /\ n < MaxScans
    /\ r.cursor /= 0 =>
         /\ n + 1 < MaxScans
         /\ r.left <= MaxBatch * (MaxScans - (n + 1))

\* line 78
ScanStep ==
    /\ pc = "Scan"
    /\ \E r \in ScanReplies(src, cursor, COUNT) :
         /\ ScanReplyOk(r, Len(scanLog))
         /\ cursor' = r.cursor
         /\ keys' = r.keys
         /\ scanLog' = Append(scanLog, <<cursor, r.cursor>>)
         /\ tally' = [tally EXCEPT !.listed = @ + Len(r.keys)]
    /\ calls' = [calls EXCEPT !.scan = @ + 1]
    /\ pc' = "Fetch"
    /\ UNCHANGED <<argv, src, dst, busymsg, shown>>
    /\ UNCHANGED <<size, cnt, non_existing, already_existing, result, pipeline, results, i>>
    /\ UNCHANGED <<issued, outcomes, fresh, applied, src0, dst0, run, prev>>

Scan == ScanStep /\ UNCHANGED logged

\* the same call, with the batch it returned kept
ScanLogged ==
    /\ ScanStep
    /\ listing' = Append(listing, keys')
    /\ UNCHANGED prevListing

\* lines 79-85
Fetch ==
    /\ pc = "Fetch"
    /\ result' = ExecSource(src, keys)
    /\ calls' = [calls EXCEPT !.pttl = @ + Len(keys), !.dump = @ + Len(keys)]
    /\ tally' = [tally EXCEPT !.fetched = @ + 1]
    /\ pc' = "Build"
    /\ UNCHANGED <<argv, servers, shown>>
    /\ UNCHANGED <<size, cnt, non_existing, already_existing, cursor, keys, pipeline, results, i>>
    /\ UNCHANGED <<issued, scanLog, outcomes, fresh, applied, src0, dst0, run, prev, logged>>

\* lines 86-101
Build ==
    /\ pc = "Build"
    /\ pipeline' = BuildPipeline(dryrun, keys, EvenSlice(result), OddSlice(result))
    /\ non_existing' = non_existing + CountVanished(keys, EvenSlice(result), OddSlice(result))
    /\ pc' = "Transfer"
    /\ UNCHANGED <<argv, servers, shown, history>>
    /\ UNCHANGED <<size, cnt, already_existing, cursor, keys, result, results, i>>

\* the restores of a pipeline whose key the store does not hold
AbsentAtIssue(store, cmds) ==
    { <<c[2], c[4]>> : c \in {d \in Range(cmds) : d[1] = "restore" /\ d[2] \notin DOMAIN store} }

CountOp(cmds, op) == Cardinality({j \in 1..Len(cmds) : cmds[j][1] = op})

\* the restores of a pipeline that replied OK, as <<key, payload>>
OkRestores(cmds, replies) ==
    { <<cmds[j][2], cmds[j][4]>> :
        j \in {x \in 1..Len(cmds) : cmds[x][1] = "restore" /\ replies[x] = OK} }

\* line 103
Transfer ==
    /\ pc = "Transfer"
    /\ LET ex == ExecDest(dst, busymsg, pipeline)
       IN  /\ dst' = ex.store
           /\ results' = ex.results
           /\ applied' = applied \cup OkRestores(pipeline, ex.results)
           /\ tally' = [tally EXCEPT !.transferred = @ + 1,
                                     !.ok = @ + Cardinality({x \in 1..Len(pipeline) :
                                                 pipeline[x][1] = "restore" /\ ex.results[x] = OK})]
    /\ issued' = pipeline
    /\ pipeline' = <<>>
    /\ calls' = [calls EXCEPT !.restore = @ + CountOp(pipeline, "restore"),
                              !.type = @ + CountOp(pipeline, "type")]
    /\ fresh' = fresh \cup AbsentAtIssue(dst, pipeline)
    /\ i' = 1
    /\ pc' = "Classify"
    /\ UNCHANGED <<argv, src, busymsg, shown>>
    /\ UNCHANGED <<size, cnt, non_existing, already_existing, cursor, keys, result>>
    /\ UNCHANGED <<scanLog, outcomes, src0, dst0, run, prev, logged>>

\* Raises never raising: the error is printed and the loop goes on
Raises_Never(out) == FALSE

\* lines 116-118: the outcome on which the loop prints the key and raises
Raises(out) == out = "Failed"

\* line 105: the number of pairs zip(keys, results) yields
Turns == min(Len(keys), Len(results))

\* lines 105-118: one turn of the loop over zip(keys, results)
Classify ==
    /\ pc = "Classify"
    /\ i <= Turns
    /\ LET key == keys[i]
           res == results[i]
           out == Outcome(dryrun, flush, res)
       IN  /\ already_existing' =
                IF out = "AlreadyExisting" THEN already_existing + 1 ELSE already_existing
           /\ IF Raises(out)
              THEN /\ printed' = Append(printed, <<"Key failed:", key, "data", res>>)
                   /\ raised' = res
                   /\ pc' = "Failed"
                   /\ UNCHANGED i
              ELSE /\ i' = i + 1
                   /\ UNCHANGED <<printed, raised, pc>>
           /\ outcomes' = outcomes \cup {<<issued[i][2], out>>}
    /\ tally' = [tally EXCEPT !.classified = @ + 1]
    /\ UNCHANGED <<argv, servers, pbar>>
    /\ UNCHANGED <<size, cnt, non_existing, cursor, keys, result, pipeline, results>>
    /\ UNCHANGED <<issued, calls, scanLog, fresh, applied, src0, dst0, run, prev, logged>>

\* BreakLoop without the test: the loop is never left
BreakLoop_Never(c) == FALSE

\* BreakLoop leaving the loop on an empty batch as well
BreakLoop_OnEmptyBatch(c) == c = 0 \/ keys = <<>>

\* line 120: whether the while loop is left after this batch
BreakLoop(c) == c = 0

\* lines 120-124: the end of the loop body
LoopEnd ==
    /\ pc = "Classify"
    /\ i > Turns
    /\ IF BreakLoop(cursor)
       THEN /\ pc' = "Finish"
            /\ UNCHANGED <<cnt, pbar>>
       ELSE /\ cnt' = cnt + Len(keys)
            /\ pbar' = Append(pbar, <<"update", min(size, cnt')>>)
            /\ pc' = "Scan"
    /\ tally' = [tally EXCEPT !.batches = @ + 1]
    /\ UNCHANGED <<argv, servers, printed, raised>>
    /\ UNCHANGED <<size, non_existing, already_existing, cursor, keys, result, pipeline, results, i>>
    /\ UNCHANGED <<issued, calls, scanLog, outcomes, fresh, applied, src0, dst0, run, prev, logged>>

\* lines 126-128
Finish ==
    /\ pc = "Finish"
    /\ pbar' = Append(pbar, <<"finish">>)
    /\ printed' = printed \o
         << <<"Keys disappeared on source during scan:", non_existing>>,
            <<"Keys already existing on destination:", already_existing>> >>
    /\ pc' = "Done"
    /\ UNCHANGED <<argv, servers, locals, raised, history>>

----------------------------------------------------------------------------
(* The environment *)

\* another client deletes a source key (or the key expires) while migrate
\* is between two of its source calls; the model lets this happen during
\* the first run
SrcDelete ==
    /\ pc \in {"Scan", "Fetch"}
    /\ run = 1
    /\ \E k \in DOMAIN src : src' = [x \in DOMAIN src \ {k} |-> src[x]]
    /\ UNCHANGED <<argv, dst, busymsg, pc, locals, shown, history>>

\* the operator starts the script again, with the same endpoints and flush
\* setting and without --dryrun, on the stores the first run left; the
\* model follows a second run when the source is what it was
ReinvokeStep ==
    /\ pc \in {"Done", "Failed"}
    /\ run = 1
    /\ src = src0
    /\ run' = 2
    /\ prev' = [pc |-> pc, dryrun |-> dryrun, flush |-> flush,
                applied |-> {o[1] : o \in {p \in outcomes : p[2] = "Applied"}},
                non_existing |-> non_existing,
                already_existing |-> already_existing]
    /\ dryrun' = FALSE
    /\ src0' = src /\ dst0' = dst
    /\ pc' = "Start"
    /\ size' = 0 /\ cnt' = 0 /\ non_existing' = 0 /\ already_existing' = 0
    /\ cursor' = 0 /\ keys' = <<>> /\ result' = <<>> /\ pipeline' = <<>>
    /\ results' = <<>> /\ i' = 0
    /\ printed' = <<>> /\ pbar' = <<>> /\ raised' = "none"
    /\ issued' = <<>> /\ calls' = NoCalls /\ scanLog' = <<>> /\ tally' = NoTally
    /\ outcomes' = {} /\ fresh' = {} /\ applied' = {}
    /\ UNCHANGED <<srchost, srchostport, dsthost, dsthostport, flush, servers>>

Reinvoke == ReinvokeStep /\ UNCHANGED logged

\* the same, with the batches of the run that ended kept
ReinvokeLogged ==
    /\ ReinvokeStep
    /\ prevListing' = listing
    /\ listing' = <<>>

Next ==
    \/ Start \/ Flush \/ Dbsize
    \/ Scan \/ Fetch \/ Build \/ Transfer \/ Classify \/ LoopEnd \/ Finish
    \/ SrcDelete \/ Reinvoke

Spec == Init /\ [][Next]_vars

----------------------------------------------------------------------------
(* One run of migrate in which every call to an endpoint returns *)

\* the steps of migrate
Step ==
    \/ Start \/ Flush \/ Dbsize
    \/ Scan \/ Fetch \/ Build \/ Transfer \/ Classify \/ LoopEnd \/ Finish

\* a client of the source removes a key, MaxDeletes times at most
RunDelete ==
    /\ Cardinality(DOMAIN src0) - Cardinality(DOMAIN src) < MaxDeletes
    /\ SrcDelete

RunNext == Step \/ RunDelete

\* the runs followed to their end: against a destination of a current
\* server version
RunInit == Init /\ busymsg = BusyKeyMsg

\* migrate is one sequential process: a step that can be taken is taken
RunSpec == RunInit /\ [][RunNext]_vars /\ WF_vars(Step)

----------------------------------------------------------------------------
(* A dry run and the Commit run after it, on a source nobody changes *)

PairInit == Init /\ dryrun

PairNext ==
    \/ Start \/ Flush \/ Dbsize
    \/ ScanLogged \/ Fetch \/ Build \/ Transfer \/ Classify \/ LoopEnd \/ Finish
    \/ ReinvokeLogged

PairSpec == PairInit /\ [][PairNext]_vars

----------------------------------------------------------------------------
(* The same run with a progress bar whose calls may raise *)

\* the exception of a progress bar call that fails
ProgressError == "progress bar error"

\* lines 123-124: pbar.update raises; nothing around the call catches it
UpdateRaises ==
    /\ pc = "Classify"
    /\ i > Turns
    /\ ~BreakLoop(cursor)
    /\ cnt' = cnt + Len(keys)
    /\ pbar' = Append(pbar, <<"update raised", min(size, cnt')>>)
    /\ raised' = ProgressError
    /\ pc' = "Crashed"
    /\ UNCHANGED <<argv, servers, printed, history>>
    /\ UNCHANGED <<size, non_existing, already_existing, cursor, keys, result, pipeline, results, i>>

\* line 126: pbar.finish raises; lines 127-128 are not reached
FinishRaises ==
    /\ pc = "Finish"
    /\ pbar' = Append(pbar, <<"finish raised">>)
    /\ raised' = ProgressError
    /\ pc' = "Crashed"
    /\ UNCHANGED <<argv, servers, locals, printed, history>>

FaultNext == Next \/ UpdateRaises \/ FinishRaises

FaultSpec == Init /\ [][FaultNext]_vars

----------------------------------------------------------------------------
(* Properties *)

Last(s) == s[Len(s)]

\* C1: a Commit run over a source that did not change ends in Done only
\* with every source key on the destination, and every key the destination
\* lacked when its restore ran holds the payload dumped from the source.
C1_CommitCopiesEveryKey ==
    (pc = "Done" /\ ~dryrun /\ src = src0) =>
        /\ \A k \in DOMAIN src : k \in DOMAIN dst
        /\ \A f \in fresh :
             /\ f[1] \in DOMAIN dst
             /\ dst[f[1]].data = f[2]
             /\ f[2] = dump(src, f[1])

C1_Witness ==
    /\ pc = "Done" /\ ~dryrun /\ ~flush /\ src = src0
    /\ Len(scanLog) = 2
    /\ Cardinality(fresh) = 1
    /\ already_existing >= 1

\* C2: every restore queued for a key with a payload carries ttl 0 when the
\* fetched PTTL is -1 and the fetched PTTL itself when that is >= 0, and no
\* restore is queued or run with a negative ttl.
C2_TTLNormalized ==
    /\ pc = "Transfer" /\ ~dryrun =>
         \A j \in 1..Len(keys) :
            result[2 * j] /= None =>
               /\ \E c \in Range(pipeline) :
                    c[1] = "restore" /\ c[2] = keys[j] /\ c[4] = result[2 * j]
               /\ \A c \in Range(pipeline) :
                    c[2] = keys[j] =>
                       /\ result[2 * j - 1] = -1 => c[3] = 0
                       /\ result[2 * j - 1] >= 0 => c[3] = result[2 * j - 1]
    /\ \A c \in Range(pipeline) \cup Range(issued) : c[1] = "restore" => c[3] >= 0

C2_Witness ==
    /\ pc = "Transfer" /\ ~dryrun
    /\ \E c \in Range(pipeline) : c[1] = "restore" /\ c[3] = 0 /\ pttl(src, c[2]) = -1
    /\ \E c \in Range(pipeline) : c[1] = "restore" /\ c[3] > 0 /\ pttl(src, c[2]) = c[3]

\* the two runs C3 is about: Commit mode, no flush, the source unchanged
TwoCommitRuns ==
    run = 2 /\ ~prev.dryrun /\ ~dryrun /\ ~flush /\ src = src0

C4_DryRunLeavesDestination ==
    dryrun => dst = dst0 /\ calls.flushdb = 0 /\ calls.restore = 0

C4_Witness ==
    /\ dryrun /\ flush /\ pc = "Done"
    /\ calls.type >= 2
    /\ DOMAIN dst /= {}

\* C5: in a dry run with flush no reply is classified AlreadyExisting and
\* already_existing stays 0.
C5_DryRunFlushCountsNone ==
    (dryrun /\ flush) =>
        /\ already_existing = 0
        /\ \A o \in outcomes : o[2] = "WouldApply"

C5_Witness ==
    /\ dryrun /\ flush /\ pc = "Classify" /\ i > Turns
    /\ \E j \in 1..Len(results) : results[j] = TypeString /\ issued[j][2] \in DOMAIN dst0
    /\ already_existing = 0

\* C6: building the destination pipeline adds to non_existing exactly the
\* number of listed keys whose dump is None and queues no command for any
\* of them; nothing else changes non_existing during a run.
C6_VanishedAccounting ==
    /\ [][pc = "Build" =>
            /\ non_existing' = non_existing
                 + Cardinality({j \in 1..Len(keys) : result[2 * j] = None})
            /\ \A j \in 1..Len(keys) :
                 result[2 * j] = None => \A c \in Range(pipeline') : c[2] /= keys[j]
            /\ Len(pipeline') = Cardinality({j \in 1..Len(keys) : result[2 * j] /= None})]_vars
    /\ [][non_existing' /= non_existing => (pc = "Build" \/ pc' = "Start")]_vars

C6_Witness ==
    /\ pc = "Transfer"
    /\ non_existing = 1
    /\ Len(keys) = 2 /\ Len(pipeline) = 1
    /\ result[2] = None

\* C7: in Commit mode a reply that is a busy-key conflict adds one to
\* already_existing and the loop goes to the next reply; after the last
\* reply of a batch whose cursor is not 0 the next scan follows; the run
\* never fails with a busy-key conflict.
C7_ConflictIsAbsorbed ==
    /\ [][(pc = "Classify" /\ i <= Turns /\ ~dryrun
            /\ results[i] \in {BusyKeyMsg, BusyLegacyMsg}) =>
               /\ already_existing' = already_existing + 1
               /\ pc' = "Classify" /\ i' = i + 1
               /\ raised' = raised /\ printed' = printed]_vars
    /\ [][(pc = "Classify" /\ i > Turns /\ cursor /= 0) => pc' = "Scan"]_vars
    /\ [][pc' = "Failed" => raised' \notin {BusyKeyMsg, BusyLegacyMsg}]_vars

C7_Witness ==
    /\ ~dryrun /\ pc = "Fetch" /\ Len(scanLog) = 2
    /\ already_existing >= 1
    /\ busymsg = BusyLegacyMsg

\* C8: when a Commit run fails, the key printed with the error is the key
\* of the restore that returned the error.
C8_FailedKeyIsOffender ==
    pc = "Failed" =>
        /\ Last(printed)[2] = issued[i][2]
        /\ Last(printed)[4] = results[i]

\* C9: an empty source is never scanned; the first scan is issued with
\* cursor 0 and each later one with the cursor the previous one returned,
\* which was not 0; the loop is left only after a scan that returned 0, with
\* every scanned batch fetched, transferred and classified.
C9_CursorTermination ==
    /\ (calls.dbsize = 1 /\ size = 0) => (scanLog = <<>> /\ pc = "Done")
    /\ calls.scan = Len(scanLog)
    /\ scanLog /= <<>> => scanLog[1][1] = 0
    /\ \A j \in 2..Len(scanLog) :
         scanLog[j][1] = scanLog[j - 1][2] /\ scanLog[j - 1][2] /= 0
    /\ (pc \in {"Finish", "Done"} /\ scanLog /= <<>>) =>
         /\ Last(scanLog)[2] = 0
         /\ tally.fetched = Len(scanLog)
         /\ tally.transferred = Len(scanLog)
         /\ tally.batches = Len(scanLog)
         /\ tally.classified = calls.restore + calls.type

C9_Witness ==
    /\ pc = "Done" /\ Len(scanLog) = 2
    /\ scanLog[1][2] /= 0
    /\ Len(keys) >= 1 /\ tally.classified = tally.listed

\* C10: with the same source and destination address migrate ends at the
\* self-migration test with its message and calls neither endpoint.
C10_SelfMigrationGuard ==
    (srchost = dsthost /\ srchostport = dsthostport) =>
        /\ pc \in {"Start", "Aborted"}
        /\ calls = NoCalls
        /\ src = src0 /\ dst = dst0
        /\ pc = "Aborted" => printed = << <<"Source and destination must be different.">> >>

C10_Witness ==
    /\ srchost = dsthost /\ srchostport = dsthostport
    /\ pc = "Aborted" /\ flush /\ ~dryrun
    /\ DOMAIN src /= {} /\ DOMAIN dst /= {}

\* C11: a run that got past the address test and ended, in Done (an empty
\* source included) or in Failed, has printed the count of keys that
\* disappeared and the count of keys that already existed, as they stand;
\* a run that ended in Failed has printed the key and the error as well.
C11_CountsReported ==
    pc \in {"Done", "Failed"} =>
        /\ <<"Keys disappeared on source during scan:", non_existing>> \in Range(printed)
        /\ <<"Keys already existing on destination:", already_existing>> \in Range(printed)
        /\ pc = "Failed" =>
             \E j \in 1..Len(printed) :
                 /\ printed[j][1] = "Key failed:"
                 /\ printed[j][4] = raised

\* C12: a Commit result classified Failed puts the run in Failed at once;
\* from Failed the run takes no further step (only a new invocation of the
\* script follows): no call is issued, no counter and no store changes; and
\* every restore that replied OK, in an earlier batch or in the pipeline of
\* the failing batch, is on the destination as it was restored.
C12_FatalHaltNoRollback ==
    [][ /\ (\E o \in outcomes' : o[2] = "Failed") => pc' = "Failed"
        /\ pc = "Failed" =>
             \/ run' /= run
             \/ /\ pc' = "Failed"
                /\ UNCHANGED <<calls, scanLog, tally, cnt, non_existing,
                               already_existing, dst, applied>>
        /\ \A a \in applied' :
             /\ a[1] \in DOMAIN dst'
             /\ dst'[a[1]].data = a[2] ]_vars

C12_Witness ==
    /\ pc = "Failed" /\ ~dryrun
    /\ tally.batches = 1
    /\ Cardinality(applied) = 2
    /\ \E x \in 1..Len(issued) : results[x] = OK /\ <<issued[x][2], issued[x][4]>> \in applied
    /\ \A a \in applied : a[1] \in DOMAIN dst

\* C13: FLUSHDB is issued at most once in a run and only with flush and
\* without dryrun; in such a run it has been issued by the time DBSIZE or
\* any SCAN, PTTL, DUMP, RESTORE or TYPE is; and a run whose DBSIZE read 0
\* is in Done with nothing scanned, fetched or written.
C13_InitOrdering ==
    /\ calls.flushdb <= 1
    /\ calls.flushdb = 1 => flush /\ ~dryrun
    /\ (flush /\ ~dryrun
        /\ calls.dbsize + calls.scan + calls.pttl + calls.dump
           + calls.restore + calls.type > 0) => calls.flushdb = 1
    /\ pc = "Flush" => calls = NoCalls
    /\ (calls.dbsize = 1 /\ size = 0) =>
         /\ pc = "Done"
         /\ calls = [NoCalls EXCEPT !.dbsize = 1, !.flushdb = calls.flushdb]
         /\ tally = NoTally /\ scanLog = <<>>
         /\ (flush /\ ~dryrun) => DOMAIN dst = {}

C13_Witness ==
    /\ pc = "Done" /\ calls.dbsize = 1 /\ size = 0
    /\ flush /\ ~dryrun /\ calls.flushdb = 1
    /\ DOMAIN dst0 /= {} /\ DOMAIN dst = {}

\* the values the progress bar was updated with, in order
RECURSIVE Reported(_)
Reported(bar) ==
    IF bar = <<>> THEN <<>>
    ELSE (IF Head(bar)[1] = "update" THEN <<Head(bar)[2]>> ELSE <<>>) \o Reported(Tail(bar))

\* C14: once a batch is through, the batch whose scan returned cursor 0
\* included, cnt is the number of keys all scans so far returned and the
\* progress bar was updated with min(size, cnt), one update per batch; so in
\* Done cnt is the number of keys the scans of the run returned; and the
\* values reported never exceed size and never decrease.
C14_KeyCounting ==
    LET rep == Reported(pbar)
    IN  /\ pc \in {"Scan", "Finish", "Done"} =>
             /\ cnt = tally.listed
             /\ Len(rep) = tally.batches
             /\ rep /= <<>> => Last(rep) = min(size, cnt)
        /\ \A j \in 1..Len(rep) : rep[j] <= size
        /\ \A j \in 2..Len(rep) : rep[j - 1] <= rep[j]

\* the keys of a sequence of batches, in order
RECURSIVE Listing(_)
Listing(log) == IF log = <<>> THEN <<>> ELSE Head(log) \o Listing(Tail(log))

Occurrences(s, k) == Cardinality({j \in 1..Len(s) : s[j] = k})

\* a dry run that ended in Done, followed by a Commit run with the same
\* flush setting on the same source and destination that ended in Done
\* after the same scans
DryThenCommit ==
    /\ run = 2 /\ prev.dryrun /\ prev.pc = "Done" /\ prev.flush = flush
    /\ ~dryrun /\ pc = "Done"
    /\ listing = prevListing

\* C15: the dry run ended with the counts of vanished and of already
\* existing keys the Commit run ended with, whatever the scans returned.
C15_DryRunPredictsCommit ==
    DryThenCommit =>
        /\ prev.non_existing = non_existing
        /\ prev.already_existing = already_existing

\* C15, amended: the same, when the scans returned no key the Commit run
\* restored more than once.
C15_DryRunPredictsWithoutRepeat ==
    (DryThenCommit /\ \A a \in applied : Occurrences(Listing(listing), a[1]) = 1) =>
        /\ prev.non_existing = non_existing
        /\ prev.already_existing = already_existing

C15_Witness ==
    /\ DryThenCommit /\ ~flush
    /\ \A a \in applied : Occurrences(Listing(listing), a[1]) = 1
    /\ \E k \in DOMAIN dst0 : Occurrences(Listing(listing), k) = 2
    /\ applied /= {}
    /\ already_existing = 2 /\ prev.already_existing = 2

\* C16: a progress bar call that raised has not ended the run: the run goes
\* on to its remaining batches and to Done, and the exception is not the
\* run's result.
C16_ReporterFailureIsolated ==
    (\E j \in 1..Len(pbar) : pbar[j][1] \in {"update raised", "finish raised"}) =>
        /\ pc \in {"Scan", "Fetch", "Build", "Transfer", "Classify", "Finish", "Done"}
        /\ raised /= ProgressError

\* C17: in a Commit run without flush every key the destination held before
\* the run is on the destination with the value and TTL it had, in every
\* state, and is classified as already existing only; and a step that
\* changes the source is never a step of migrate.
C17_NoOverwriteWithoutFlush ==
    [][ /\ (~dryrun' /\ ~flush') =>
             \A k \in DOMAIN dst0' :
                 /\ k \in DOMAIN dst'
                 /\ dst'[k] = dst0'[k]
                 /\ \A o \in outcomes' : o[1] = k => o[2] = "AlreadyExisting"
        /\ src' /= src => UNCHANGED <<pc, dst, locals, shown, history>> ]_vars

C17_Witness ==
    /\ ~dryrun /\ ~flush /\ pc = "Done"
    /\ \E k \in DOMAIN dst0 \cap DOMAIN src0 :
         /\ src0[k].data /= dst0[k].data
         /\ dst[k] = dst0[k]
         /\ <<k, "AlreadyExisting">> \in outcomes
         /\ already_existing >= 1

\* C18: when a batch is classified to its end, the keys the scans returned
\* so far are as many as the vanished keys plus the destination replies
\* classified so far; and in a Commit run in Done they are as many as the
\* vanished keys plus the already existing keys plus the restores that
\* replied OK, with as many classifications as destination commands.
C18_CounterConservation ==
    /\ ((pc = "Classify" /\ i > Turns) \/ pc \in {"Scan", "Finish", "Done"}) =>
         tally.listed = non_existing + tally.classified
    /\ (~dryrun /\ pc = "Done") =>
         /\ tally.listed = non_existing + already_existing + tally.ok
         /\ tally.classified = calls.restore
         /\ tally.classified = already_existing + tally.ok

C18_Witness ==
    /\ ~dryrun /\ pc = "Done"
    /\ Len(scanLog) = 2
    /\ non_existing >= 1 /\ already_existing >= 1 /\ tally.ok >= 1

\* C19: a run in which every call returns ends in Aborted, Done or Failed
\* and stays in the one it reached; a run in Done has processed every batch
\* it scanned, the last of them returned with cursor 0, and has classified
\* every reply of the destination.
C19_Termination ==
    /\ <>(pc \in {"Aborted", "Done", "Failed"})
    /\ [][ /\ (pc \in {"Aborted", "Done", "Failed"}) => pc' = pc
          /\ pc' = "Done" =>
               /\ tally'.batches = Len(scanLog')
               /\ tally'.fetched = Len(scanLog') /\ tally'.transferred = Len(scanLog')
               /\ scanLog' /= <<>> => Last(scanLog')[2] = 0
               /\ tally'.classified = calls'.restore + calls'.type
               /\ i' > Turns' \/ scanLog' = <<>> ]_vars

C19_Witness ==
    /\ pc = "Done" /\ run = 1
    /\ tally.batches = 2 /\ Len(scanLog) = 2
    /\ non_existing >= 1
    /\ tally.classified >= 2
    /\ tally.classified = calls.restore + calls.type

====
